---- MODULE Spec2Model ----
(***************************************************************************)
(* rudder-server: the bounded frequency-counter cache of the event-schema  *)
(* manager (event-schema/counter_manager.go) and the statement-execution   *)
(* helper of the postgres warehouse (warehouse/postgres/                   *)
(* postgresQueryBuilder.go).                                               *)
(*                                                                         *)
(* The specifications share the variables:                               *)
(*   Spec      the cache operations executed one at a time (each call of   *)
(*             counter_manager.go is one action);                          *)
(*   SpecGets  the calls that read or trim a bucket, with the history the   *)
(*             claims about repeated gets need;                            *)
(*   SpecConc  the same functions called by goroutines whose statements    *)
(*             interleave (counter_manager.go takes no lock);              *)
(*   SpecQuery handleQueryExecution against a store whose answers are      *)
(*             nondeterministic;                                           *)
(*   SpecReport the cache with the entries of its counters, and the reads   *)
(*             getSchemaVersionCounters and getAllFrequencyCounters;        *)
(*   SpecEvents handleEvent resolving event models and schema versions;     *)
(*   SpecLimits the cache under any integer limit;                          *)
(*   SpecOrder  gets, limit changes and reloads with the order of requests; *)
(*   SpecHashes the cache operations on two schema hashes.                  *)
(***************************************************************************)
EXTENDS Integers, Sequences, FiniteSets, TLC

VARIABLES
    countersCache,          \* schemaHash -> reference of its bucket (a Go map), or NoMap
    heap,                   \* map reference -> the map's content, Key -> *FrequencyCounter
    frequencyCounterLimit,  \* the runtime-tunable bound
    last,                   \* the last completed call: its arguments, what it saw, its result
    pendingTrim,            \* per hash: the limit was lowered since the last completed get
    asked,                  \* keys requested by get since the limit last changed (SpecGets)
    denied,                 \* keys a full bucket refused and that nothing freed since (SpecGets)
    trimmed,                \* a get trimmed the bucket since the limit last changed (SpecGets)
    gor,                    \* per goroutine: position and locals of its call (SpecConc)
    fatal,                  \* the Go runtime has ended the process (SpecConc)
    calls,                  \* calls started by goroutines (SpecConc)
    exec,                   \* the last handleQueryExecution call (SpecQuery)
    entries,                \* FrequencyCounter -> the entries it holds (SpecReport)
    counters,               \* the map the last getSchemaVersionCounters returned (SpecReport)
    eventModelMap,          \* (write key, event type, event identifier) -> EventModel (SpecEvents)
    schemaVersionMap,       \* EventModel UUID -> schema hash -> SchemaVersion (SpecEvents)
    resolved,               \* what every handleEvent call resolved (SpecEvents)
    requested               \* the keys asked of get, in the order of their first request (SpecOrder)

vars == <<countersCache, heap, frequencyCounterLimit, last, pendingTrim,
          asked, denied, trimmed, gor, fatal, calls, exec, entries, counters,
          eventModelMap, schemaVersionMap, resolved, requested>>

cacheVars == <<countersCache, heap, frequencyCounterLimit, last, pendingTrim>>
ghostVars == <<asked, denied, trimmed>>
concVars  == <<gor, fatal, calls>>
reportVars == <<entries, counters>>
registryVars == <<eventModelMap, schemaVersionMap, resolved>>

----------------------------------------------------------------------------
(* Bounds of the model *)

MaxLimit == 2       \* frequencyCounterLimit ranges over 0..MaxLimit
MaxLen == 2         \* length of a persisted counter list handed to populate
MaxCalls == 4       \* calls the goroutines of SpecConc start in one run
MaxRows == 2        \* rows of an EXPLAIN answer

Hashes == {"h1", "h2"}
OneHash == {"h1"}     \* the schema hash the calls of Spec and SpecConc work on
Fields == {"A", "B", "C"}
ConcFields == {"A", "B"}   \* the keys the goroutines of SpecConc ask for
Workers == {"w1", "w2"}
Reader == "r"
Goroutines == Workers \cup {Reader}

Min(a, b) == IF a < b THEN a ELSE b

----------------------------------------------------------------------------
(* Go values: pointers to FrequencyCounter, maps *)

\* a nil *FrequencyCounter
NoCounter == [Name |-> "", id |-> <<"", 0>>]

\* the absent entry of countersCache (the !ok of a lookup)
NoMap == <<"", 0>>

\* addresses of maps: those of the buckets made for hash h are the <<h, n>>
MapIds == Hashes \X (1..(Cardinality(Goroutines) + 1))

\* make(map[string]*FrequencyCounter)
EmptyMap == [k \in {} |-> NoCounter]

MapLen(m) == Cardinality(DOMAIN m)

\* m[key]: the zero value (nil) for a missing key
Lookup(m, key) == IF key \in DOMAIN m THEN m[key] ELSE NoCounter

\* m[key] = c
Insert(m, key, c) == [k \in DOMAIN m \cup {key} |-> IF k = key THEN c ELSE m[k]]

\* delete(m, k) for every k of S
Delete(m, S) == [k \in DOMAIN m \ S |-> m[k]]

Range(f) == {f[x] : x \in DOMAIN f}

\* every order in which a range over the map may produce its values
Orders(m) ==
    {s \in [1..MapLen(m) -> Range(m)] : \A i, j \in 1..MapLen(m) : i # j => s[i] # s[j]}

----------------------------------------------------------------------------
(* Allocation: a new object is distinct from every object still referenced *)

GorMaps == {gor[g].m : g \in Goroutines} \ {NoMap}

ReferencedMaps == (Range(countersCache) \ {NoMap}) \cup GorMaps

\* the reference make() returns: one that nothing refers to
NewMap(h) ==
    LET free == {i \in MapIds \ ReferencedMaps : i[1] = h}
    IN  CHOOSE i \in free : \A j \in free : i[2] <= j[2]

\* the heap once the maps nothing refers to are collected
Collect(cache, hp, held) ==
    [i \in MapIds |-> IF i \in (Range(cache) \cup held) THEN hp[i] ELSE EmptyMap]

LiveCounters ==
    UNION {Range(heap[i]) : i \in MapIds}
        \cup {last.ret} \cup Range(last.pre) \cup Range(last.list)
        \cup {gor[g].fc : g \in Goroutines}

\* the smallest object id no live counter named `name`, and none of `taken`, has
FreshId(h, name, taken) ==
    LET used == {c.id : c \in {x \in LiveCounters \cup taken : x.Name = name}}
        free == {n \in 1..(Cardinality(used) + 1) : <<h, n>> \notin used}
    IN  <<h, CHOOSE n \in free : \A j \in free : n <= j>>

\* NewFrequencyCounter(key): an empty counter named key
NewFrequencyCounter(h, key) == [Name |-> key, id |-> FreshId(h, key, {})]

\* NewPeristedFrequencyCounter(fc): a new counter restored from fc, named fc.Name
NewPeristedFrequencyCounter(h, fc, taken) ==
    [Name |-> fc.Name, id |-> FreshId(h, fc.Name, taken)]

\* counters deserialized from the private data of an event model
PersistedCounters == {[Name |-> f, id |-> <<"db", 0>>] : f \in Fields}

PersistedLists == UNION {[1..n -> PersistedCounters] : n \in 0..MaxLen}

----------------------------------------------------------------------------
(* counter_manager.go as functions of the map *)

\* line 65 with the bound taken one too large
DiffOffByOne(bound, m) == (bound + 1) - MapLen(m)

\* line 65
Diff(bound, m) == bound - MapLen(m)

\* lines 78-86 with a loop that deletes one entry more than toDelete
EvictionsOneMore(m, bound) ==
    LET toDelete == (-1 * (bound - MapLen(m))) + 1
    IN  IF bound - MapLen(m) >= 0 THEN {{}}
        ELSE {S \in SUBSET DOMAIN m : Cardinality(S) = Min(toDelete, MapLen(m))}

\* lines 76-86: the sets of keys the trim loop may delete (none when the bound is
\* not exceeded); the range order is arbitrary, the loop stops when toDelete
\* entries are gone or the map is empty
Evictions(m, bound) ==
    LET toDelete == -1 * Diff(bound, m)
    IN  IF Diff(bound, m) >= 0 THEN {{}}
        ELSE {S \in SUBSET DOMAIN m : Cardinality(S) = Min(toDelete, MapLen(m))}

\* lines 65-100 without the branch for a full bucket (diff == 0)
MapAfterGetInsertsWhenFull(h, m, key, bound, evict) ==
    IF bound - MapLen(m) < 0 THEN Delete(m, evict)
    ELSE IF key \in DOMAIN m THEN m
    ELSE Insert(m, key, NewFrequencyCounter(h, key))

\* lines 93-97 without the lookup: the key is given a new counter at every call
MapAfterGetRenews(h, m, key, bound, evict) ==
    IF Diff(bound, m) = 0 THEN m
    ELSE IF Diff(bound, m) < 0 THEN Delete(m, evict)
    ELSE Insert(m, key, NewFrequencyCounter(h, key))

\* lines 65-100: the map after the call, `evict` being the keys the trim deleted
MapAfterGet(h, m, key, bound, evict) ==
    IF Diff(bound, m) = 0 THEN m
    ELSE IF Diff(bound, m) < 0 THEN Delete(m, evict)
    ELSE IF key \in DOMAIN m THEN m
    ELSE Insert(m, key, NewFrequencyCounter(h, key))

\* lines 23-32 with the loop left one iteration late (count > bound)
RECURSIVE PopulateLoopLateBreak(_, _, _, _, _, _)
PopulateLoopLateBreak(h, frequencyCounters, bound, i, count, m) ==
    IF i > Len(frequencyCounters) \/ count > bound THEN m
    ELSE LET fc == frequencyCounters[i]
             taken == Range(Delete(m, {fc.Name}))
         IN  PopulateLoopLateBreak(h, frequencyCounters, bound, i + 1, count + 1,
                                   Insert(m, fc.Name, NewPeristedFrequencyCounter(h, fc, taken)))

\* lines 23-32: the loop over frequencyCounters from index i on
RECURSIVE PopulateLoop(_, _, _, _, _, _)
PopulateLoop(h, frequencyCounters, bound, i, count, m) ==
    IF i > Len(frequencyCounters) \/ count >= bound THEN m
    ELSE LET fc == frequencyCounters[i]
             taken == Range(Delete(m, {fc.Name}))
         IN  PopulateLoop(h, frequencyCounters, bound, i + 1, count + 1,
                          Insert(m, fc.Name, NewPeristedFrequencyCounter(h, fc, taken)))

\* the bucket of a hash, empty when the hash has none
Bucket(h) == IF countersCache[h] = NoMap THEN EmptyMap ELSE heap[countersCache[h]]

Tracked(h) == DOMAIN Bucket(h)

\* lines 20-32 filling the bucket the hash already has instead of a new map
PopulatedMapMerging(h, frequencyCounters, bound) ==
    PopulateLoop(h, frequencyCounters, bound, 1, 0, Bucket(h))

\* lines 20-32
PopulatedMap(h, frequencyCounters, bound) ==
    PopulateLoop(h, frequencyCounters, bound, 1, 0, EmptyMap)


----------------------------------------------------------------------------
(* State after construction *)

\* a goroutine outside any call: its position, the locals of the function it
\* runs (m is its schemaVersionCounters, todo the keys its range has yet to
\* produce, seen the keys of the map getSchemaVersionCounters builds, fc its
\* result) and, for a read, what the bucket held while it ran (views) and
\* whether a trim was part-way through meanwhile (overTrim)
Idle == [pc |-> "idle", h |-> "", key |-> "", bound |-> 0, m |-> NoMap, diff |-> 0,
         toDelete |-> 0, todo |-> {}, seen |-> {}, fc |-> NoCounter,
         views |-> {}, overTrim |-> FALSE]

NoCall == [op |-> "none", h |-> "", key |-> "", pre |-> EmptyMap,
           list |-> <<>>, ret |-> NoCounter]

NoExec == [called |-> FALSE]

\* no key asked yet of a cache that holds nothing; `whole` says the requests
\* recorded are all the bucket has seen (no lowering of the limit, no populate
\* since), `raised` that the limit was raised meanwhile
NoRequests == [keys |-> <<>>, whole |-> TRUE, raised |-> FALSE]

\* init() of counter_manager.go: an empty countersCache; the limit is what the
\* configuration holds
Init ==
    /\ countersCache = [h \in Hashes |-> NoMap]
    /\ heap = [i \in MapIds |-> EmptyMap]
    /\ frequencyCounterLimit \in 0..MaxLimit
    /\ last = NoCall
    /\ pendingTrim = [h \in Hashes |-> FALSE]
    /\ asked = {}
    /\ denied = {}
    /\ trimmed = FALSE
    /\ gor = [g \in Goroutines |-> Idle]
    /\ fatal = FALSE
    /\ calls = 0
    /\ exec = NoExec
    /\ entries = <<>>
    /\ counters = <<>>
    /\ eventModelMap = <<>>
    /\ schemaVersionMap = <<>>
    /\ resolved = <<>>
    /\ requested = NoRequests

----------------------------------------------------------------------------
(* The cache, one call at a time *)

\* getFrequencyCounterBounded(schemaHash, key, bound)
getFrequencyCounterBounded(schemaHash, key, bound) ==
    LET ok == countersCache[schemaHash] # NoMap
        ref == IF ok THEN countersCache[schemaHash] ELSE NewMap(schemaHash)
        m == IF ok THEN heap[ref] ELSE EmptyMap
    IN  \E evict \in Evictions(m, bound) :
          LET after == MapAfterGet(schemaHash, m, key, bound, evict)
          IN  /\ countersCache' = [countersCache EXCEPT ![schemaHash] = ref]
              /\ heap' = [heap EXCEPT ![ref] = after]
              /\ last' = [op |-> "get", h |-> schemaHash, key |-> key, pre |-> m,
                          list |-> <<>>, ret |-> Lookup(after, key)]

\* getFrequencyCounter(schemaHash, key)
getFrequencyCounter(schemaHash, key) ==
    /\ getFrequencyCounterBounded(schemaHash, key, frequencyCounterLimit)
    /\ pendingTrim' = [pendingTrim EXCEPT ![schemaHash] = FALSE]
    /\ UNCHANGED <<frequencyCounterLimit, concVars, exec>>

\* lines 20-33 with line 33 assigning a new countersCache that holds the one bucket
populateFrequencyCountersBoundedNewCache(op, schemaHash, frequencyCounters, bound) ==
    LET ref == NewMap(schemaHash)
        frequencyCountersMap == PopulatedMap(schemaHash, frequencyCounters, bound)
        cache == [h \in Hashes |-> IF h = schemaHash THEN ref ELSE NoMap]
    IN  /\ countersCache' = cache
        /\ heap' = Collect(cache, [heap EXCEPT ![ref] = frequencyCountersMap], {})
        /\ last' = [op |-> op, h |-> schemaHash, key |-> "", pre |-> EmptyMap,
                    list |-> frequencyCounters, ret |-> NoCounter]

\* populateFrequencyCountersBounded(schemaHash, frequencyCounters, bound)
populateFrequencyCountersBounded(op, schemaHash, frequencyCounters, bound) ==
    LET ref == NewMap(schemaHash)
        frequencyCountersMap == PopulatedMap(schemaHash, frequencyCounters, bound)
        cache == [countersCache EXCEPT ![schemaHash] = ref]
    IN  /\ countersCache' = cache
        /\ heap' = Collect(cache, [heap EXCEPT ![ref] = frequencyCountersMap], {})
        /\ last' = [op |-> op, h |-> schemaHash, key |-> "", pre |-> EmptyMap,
                    list |-> frequencyCounters, ret |-> NoCounter]

\* populateFrequencyCounters(schemaHash, frequencyCounters): counters loaded from storage
populateFrequencyCounters(schemaHash, frequencyCounters) ==
    /\ populateFrequencyCountersBounded("populate", schemaHash, frequencyCounters,
                                        frequencyCounterLimit)
    /\ UNCHANGED <<frequencyCounterLimit, pendingTrim, concVars, exec>>

\* getAllFrequencyCounters making the bucket of an unknown hash, as lines 59-63 do
getAllFrequencyCountersMakingBucket(schemaHash) ==
    LET ok == countersCache[schemaHash] # NoMap
        ref == IF ok THEN countersCache[schemaHash] ELSE NewMap(schemaHash)
    IN  /\ \E frequencyCounters \in Orders(Bucket(schemaHash)) :
              last' = [op |-> "all", h |-> schemaHash, key |-> "", pre |-> Bucket(schemaHash),
                       list |-> frequencyCounters, ret |-> NoCounter]
        /\ countersCache' = [countersCache EXCEPT ![schemaHash] = ref]
        /\ UNCHANGED <<heap, frequencyCounterLimit, pendingTrim, concVars, exec>>

\* getAllFrequencyCounters(schemaHash): the snapshot a flush serializes
getAllFrequencyCounters(schemaHash) ==
    /\ \E frequencyCounters \in Orders(Bucket(schemaHash)) :
          last' = [op |-> "all", h |-> schemaHash, key |-> "", pre |-> Bucket(schemaHash),
                   list |-> frequencyCounters, ret |-> NoCounter]
    /\ UNCHANGED <<countersCache, heap, frequencyCounterLimit, pendingTrim, concVars, exec>>

\* flush, then reload: populateFrequencyCounters on the list that
\* getAllFrequencyCounters returned
Reload(schemaHash) ==
    /\ \E frequencyCounters \in Orders(Bucket(schemaHash)) :
          populateFrequencyCountersBounded("reload", schemaHash, frequencyCounters,
                                           frequencyCounterLimit)
    /\ UNCHANGED <<frequencyCounterLimit, pendingTrim, concVars, exec>>

\* frequencyCounterLimit = n
SetLimit(n) ==
    /\ n # frequencyCounterLimit
    /\ frequencyCounterLimit' = n
    /\ pendingTrim' = [h \in Hashes |-> pendingTrim[h] \/ n < frequencyCounterLimit]
    /\ last' = [NoCall EXCEPT !.op = "limit"]
    /\ UNCHANGED <<countersCache, heap, concVars, exec>>

Next ==
    \/ \E h \in OneHash, key \in Fields :
          getFrequencyCounter(h, key) /\ UNCHANGED <<ghostVars, reportVars, registryVars, requested>>
    \/ \E h \in OneHash, l \in PersistedLists :
          populateFrequencyCounters(h, l) /\ UNCHANGED <<ghostVars, reportVars, registryVars, requested>>
    \/ \E h \in OneHash : getAllFrequencyCounters(h) /\ UNCHANGED <<ghostVars, reportVars, registryVars, requested>>
    \/ \E h \in OneHash : Reload(h) /\ UNCHANGED <<ghostVars, reportVars, registryVars, requested>>
    \/ \E n \in 0..MaxLimit : SetLimit(n) /\ UNCHANGED <<ghostVars, reportVars, registryVars, requested>>

Spec == Init /\ [][Next]_vars

----------------------------------------------------------------------------
(* Gets, limit changes and reloads on one hash, with their history *)

\* a get: the key was asked for; a full bucket that does not hold it refuses it;
\* a bucket above the limit is trimmed
GetRecorded(h, key) ==
    /\ getFrequencyCounter(h, key)
    /\ asked' = asked \cup {key}
    /\ denied' = IF MapLen(Bucket(h)) = frequencyCounterLimit /\ key \notin Tracked(h)
                 THEN denied \cup {key} ELSE denied
    /\ trimmed' = (trimmed \/ MapLen(Bucket(h)) > frequencyCounterLimit)

\* a limit change: a limit raised above the bucket's size frees room
SetLimitRecorded(h, n) ==
    /\ SetLimit(n)
    /\ asked' = {}
    /\ denied' = IF n > MapLen(Bucket(h)) THEN {} ELSE denied
    /\ trimmed' = FALSE

\* a reload replaces the bucket
ReloadRecorded(h) ==
    /\ Reload(h)
    /\ asked' = {}
    /\ denied' = {}
    /\ trimmed' = FALSE

NextGets ==
    \/ \E h \in OneHash, key \in Fields : GetRecorded(h, key) /\ UNCHANGED <<reportVars, registryVars, requested>>
    \/ \E h \in OneHash, n \in 0..MaxLimit : SetLimitRecorded(h, n) /\ UNCHANGED <<reportVars, registryVars, requested>>
    \/ \E h \in OneHash : ReloadRecorded(h) /\ UNCHANGED <<reportVars, registryVars, requested>>

SpecGets == Init /\ [][NextGets]_vars

----------------------------------------------------------------------------
(* The cache called by goroutines: counter_manager.go takes no lock, so the    *)
(* statements of concurrent calls interleave. A step is one access to shared  *)
(* state. The unsynchronized map accesses are a data race: besides the        *)
(* interleavings, the Go runtime may detect the race and end the process.     *)

MapOf(g) == IF gor[g].m = NoMap THEN EmptyMap ELSE heap[gor[g].m]

\* a trim that has deleted some of its entries and has more to delete
MidTrim(l, hp) ==
    /\ l.pc = "trim"
    /\ l.toDelete >= 1
    /\ l.toDelete < -1 * l.diff
    /\ DOMAIN hp[l.m] # {}

\* the locals g with the read in progress, if any, told what the bucket of its
\* hash holds in the state (cache, hp)
Observe(g, cache, hp) ==
    LET r == g[Reader]
        torn == \E w \in Workers : MidTrim(g[w], hp)
        now == IF cache[r.h] = NoMap THEN {} ELSE DOMAIN hp[cache[r.h]]
    IN  IF r.pc \in {"rlookup", "range"}
        THEN [g EXCEPT ![Reader].views = IF torn THEN @ ELSE @ \cup {now},
                       ![Reader].overTrim = @ \/ torn]
        ELSE g

\* what a step leaves: the locals, the cache and the heap, unreferenced maps
\* collected
Step(g, cache, hp) ==
    /\ gor' = Observe(g, cache, hp)
    /\ countersCache' = cache
    /\ heap' = Collect(cache, hp, {g[x].m : x \in Goroutines} \ {NoMap})
    /\ UNCHANGED <<frequencyCounterLimit, last, pendingTrim, ghostVars, fatal, exec, reportVars, registryVars, requested>>

Returned(l, fc) ==
    [Idle EXCEPT !.pc = "returned", !.h = l.h, !.key = l.key, !.fc = fc]

\* line 103: getFrequencyCounter(schemaHash, key) is called; the bound is the
\* limit at the time of the call
GetCall(w, schemaHash, key) ==
    /\ ~fatal
    /\ gor[w].pc \in {"idle", "returned"}
    /\ calls < MaxCalls
    /\ calls' = calls + 1
    /\ Step([gor EXCEPT ![w] = [Idle EXCEPT !.pc = "lookup", !.h = schemaHash,
                                            !.key = key,
                                            !.bound = frequencyCounterLimit]],
            countersCache, heap)

\* lines 59-60
GetLookup(w) ==
    /\ ~fatal
    /\ gor[w].pc = "lookup"
    /\ LET ref == countersCache[gor[w].h]
       IN  Step([gor EXCEPT ![w].m = ref,
                            ![w].pc = IF ref = NoMap THEN "make" ELSE "diff"],
                countersCache, heap)
    /\ UNCHANGED calls

\* lines 61-62
GetMake(w) ==
    /\ ~fatal
    /\ gor[w].pc = "make"
    /\ LET ref == NewMap(gor[w].h)
       IN  Step([gor EXCEPT ![w].m = ref, ![w].pc = "diff"],
                [countersCache EXCEPT ![gor[w].h] = ref],
                [heap EXCEPT ![ref] = EmptyMap])
    /\ UNCHANGED calls

\* lines 65, 67, 76, 78
GetDiff(w) ==
    /\ ~fatal
    /\ gor[w].pc = "diff"
    /\ LET diff == Diff(gor[w].bound, MapOf(w))
       IN  Step([gor EXCEPT ![w].diff = diff,
                            ![w].pc = IF diff = 0 THEN "full"
                                      ELSE IF diff < 0 THEN "trim" ELSE "find",
                            ![w].toDelete = IF diff < 0 THEN -1 * diff ELSE 0,
                            ![w].todo = IF diff < 0 THEN DOMAIN MapOf(w) ELSE {}],
                countersCache, heap)
    /\ UNCHANGED calls

\* line 70
GetFull(w) ==
    /\ ~fatal
    /\ gor[w].pc = "full"
    /\ Step([gor EXCEPT ![w] = Returned(gor[w], Lookup(MapOf(w), gor[w].key))],
            countersCache, heap)
    /\ UNCHANGED calls

\* lines 79-82: the range produces a key the map held when the loop began
TrimDelete(w) ==
    /\ ~fatal
    /\ gor[w].pc = "trim"
    /\ gor[w].toDelete > 0
    /\ \E k \in gor[w].todo \cap DOMAIN MapOf(w) :
          Step([gor EXCEPT ![w].toDelete = @ - 1, ![w].todo = @ \ {k}],
               countersCache, [heap EXCEPT ![gor[w].m] = Delete(@, {k})])
    /\ UNCHANGED calls

\* lines 79-82: the range produces a key another goroutine has inserted since
TrimDeleteNew(w) ==
    /\ ~fatal
    /\ gor[w].pc = "trim"
    /\ gor[w].toDelete > 0
    /\ \E k \in DOMAIN MapOf(w) \ gor[w].todo :
          Step([gor EXCEPT ![w].toDelete = @ - 1],
               countersCache, [heap EXCEPT ![gor[w].m] = Delete(@, {k})])
    /\ UNCHANGED calls

\* lines 83-86: the break, or the end of the range
TrimEnd(w) ==
    /\ ~fatal
    /\ gor[w].pc = "trim"
    /\ gor[w].toDelete = 0 \/ gor[w].todo \cap DOMAIN MapOf(w) = {}
    /\ Step([gor EXCEPT ![w].pc = "trimret", ![w].todo = {}], countersCache, heap)
    /\ UNCHANGED calls

\* line 89
GetTrimReturn(w) ==
    /\ ~fatal
    /\ gor[w].pc = "trimret"
    /\ Step([gor EXCEPT ![w] = Returned(gor[w], Lookup(MapOf(w), gor[w].key))],
            countersCache, heap)
    /\ UNCHANGED calls

\* lines 93-94, and 99 when the key is there
GetFind(w) ==
    /\ ~fatal
    /\ gor[w].pc = "find"
    /\ LET fc == Lookup(MapOf(w), gor[w].key)
       IN  Step([gor EXCEPT ![w] = IF fc # NoCounter THEN Returned(gor[w], fc)
                                   ELSE [gor[w] EXCEPT !.pc = "new"]],
                countersCache, heap)
    /\ UNCHANGED calls

\* lines 95-96, 99
GetNew(w) ==
    /\ ~fatal
    /\ gor[w].pc = "new"
    /\ LET fc == NewFrequencyCounter(gor[w].h, gor[w].key)
       IN  Step([gor EXCEPT ![w] = Returned(gor[w], fc)],
                countersCache, [heap EXCEPT ![gor[w].m] = Insert(@, gor[w].key, fc)])
    /\ UNCHANGED calls

\* getSchemaVersionCounters(schemaHash) is called
ReadCall(schemaHash) ==
    /\ ~fatal
    /\ gor[Reader].pc \in {"idle", "returned"}
    /\ calls < MaxCalls
    /\ calls' = calls + 1
    /\ Step([gor EXCEPT ![Reader] = [Idle EXCEPT !.pc = "rlookup", !.h = schemaHash]],
            countersCache, heap)

\* lines 107-108, and the start of the range of line 110
ReadLookup ==
    /\ ~fatal
    /\ gor[Reader].pc = "rlookup"
    /\ LET ref == countersCache[gor[Reader].h]
       IN  Step([gor EXCEPT ![Reader].m = ref, ![Reader].pc = "range",
                            ![Reader].todo = IF ref = NoMap THEN {}
                                             ELSE DOMAIN heap[ref]],
                countersCache, heap)
    /\ UNCHANGED calls

\* lines 110-126: the range produces a key the map held when the loop began
ReadVisit ==
    /\ ~fatal
    /\ gor[Reader].pc = "range"
    /\ \E k \in gor[Reader].todo \cap DOMAIN MapOf(Reader) :
          Step([gor EXCEPT ![Reader].todo = @ \ {k}, ![Reader].seen = @ \cup {k}],
               countersCache, heap)
    /\ UNCHANGED calls

\* lines 110-126: the range produces a key another goroutine has inserted since
ReadVisitNew ==
    /\ ~fatal
    /\ gor[Reader].pc = "range"
    /\ \E k \in DOMAIN MapOf(Reader) \ (gor[Reader].todo \cup gor[Reader].seen) :
          Step([gor EXCEPT ![Reader].seen = @ \cup {k}], countersCache, heap)
    /\ UNCHANGED calls

\* line 128: the range is over (the keys deleted meanwhile are not produced)
ReadReturn ==
    /\ ~fatal
    /\ gor[Reader].pc = "range"
    /\ gor[Reader].todo \cap DOMAIN MapOf(Reader) = {}
    /\ Step([gor EXCEPT ![Reader] = [Idle EXCEPT !.pc = "returned", !.h = gor[Reader].h,
                                                 !.seen = gor[Reader].seen,
                                                 !.views = gor[Reader].views,
                                                 !.overTrim = gor[Reader].overTrim]],
            countersCache, heap)
    /\ UNCHANGED calls

\* positions at which a goroutine reads or writes its map
ReadsMap(l) == l.pc \in {"diff", "full", "trim", "trimret", "find", "new", "range"}
WritesMap(l) == l.pc = "new" \/ (l.pc = "trim" /\ l.toDelete > 0)

\* two goroutines are at accesses of the same map and one of them writes: the
\* runtime may detect it ("concurrent map writes", "concurrent map iteration and
\* map write") and end the process
Crash ==
    /\ ~fatal
    /\ \E g1, g2 \in Goroutines :
          /\ g1 # g2
          /\ gor[g1].m # NoMap
          /\ gor[g1].m = gor[g2].m
          /\ WritesMap(gor[g1])
          /\ ReadsMap(gor[g2])
    /\ fatal' = TRUE
    /\ countersCache' = [h \in Hashes |-> NoMap]
    /\ heap' = [i \in MapIds |-> EmptyMap]
    /\ gor' = [g \in Goroutines |-> Idle]
    /\ last' = NoCall
    /\ UNCHANGED <<frequencyCounterLimit, pendingTrim, ghostVars, calls, exec, reportVars, registryVars, requested>>

\* frequencyCounterLimit = n, between the steps of the goroutines
SetLimitConc(n) ==
    /\ ~fatal
    /\ n # frequencyCounterLimit
    /\ frequencyCounterLimit' = n
    /\ last' = [NoCall EXCEPT !.op = "limit"]
    /\ UNCHANGED <<countersCache, heap, pendingTrim, ghostVars, concVars, exec, reportVars, registryVars, requested>>

NextConc ==
    \/ \E w \in Workers, h \in OneHash, key \in ConcFields : GetCall(w, h, key)
    \/ \E w \in Workers : GetLookup(w)
    \/ \E w \in Workers : GetMake(w)
    \/ \E w \in Workers : GetDiff(w)
    \/ \E w \in Workers : GetFull(w)
    \/ \E w \in Workers : TrimDelete(w)
    \/ \E w \in Workers : TrimDeleteNew(w)
    \/ \E w \in Workers : TrimEnd(w)
    \/ \E w \in Workers : GetTrimReturn(w)
    \/ \E w \in Workers : GetFind(w)
    \/ \E w \in Workers : GetNew(w)
    \/ \E h \in OneHash : ReadCall(h)
    \/ ReadLookup
    \/ ReadVisit
    \/ ReadVisitNew
    \/ ReadReturn
    \/ Crash
    \/ \E n \in 0..MaxLimit : SetLimitConc(n)

SpecConc == Init /\ [][NextConc]_vars

----------------------------------------------------------------------------
(* handleQueryExecution (warehouse/postgres/postgresQueryBuilder.go) against a *)
(* store whose answers (an error or rows for Query, an error or a result for  *)
(* Exec, an error of Scan on some row) are not determined by the function.     *)

\* statements, as the sequences of their words
Queries == {<<"INSERT">>, <<"SELECT">>, <<"CREATE", "TABLE">>}

\* a nil *sql.Tx or *sql.DB
NoHandle == "nil"

\* line 24: "EXPLAIN " + e.query
Explain(query) == <<"EXPLAIN">> \o query

\* the values of a QueryExecution (lines 9-14)
QueryExecutions ==
    [txn : {NoHandle, "txn"}, db : {NoHandle, "db"}, query : Queries,
     enableWithQueryPlan : BOOLEAN]

\* a nil sql.Result, and the result the store gives for a statement it executed
NoResult == [of |-> <<>>, on |-> NoHandle]
ResultOf(statement, handle) == [of |-> statement, on |-> handle]

\* lines 27-34 and 53-60 with the pooled handle tried first
HandleOfPoolFirst(e) == IF e.db # NoHandle THEN e.db ELSE e.txn

\* lines 27-34 and 53-60: the handle a statement goes to, the transaction first
HandleOf(e) == IF e.txn # NoHandle THEN e.txn ELSE e.db

\* lines 53-61: Exec of sqlStatement; execFails is the store's answer
ExecStep(e, sqlStatement, sent, logged, execFails) ==
    IF HandleOf(e) = NoHandle
    THEN [sent |-> sent, logged |-> logged, result |-> NoResult, err |-> "nil handles"]
    ELSE [sent |-> Append(sent, [method |-> "Exec", on |-> HandleOf(e),
                                 statement |-> sqlStatement]),
          logged |-> logged,
          result |-> IF execFails THEN NoResult ELSE ResultOf(sqlStatement, HandleOf(e)),
          err |-> IF execFails THEN "exec" ELSE "nil"]

\* lines 20-62: what the call sends, logs and returns; queryFails, rows (the
\* number of rows of the plan), scanFailsAt (the row whose Scan fails, 0 for
\* none) and execFails are the store's answers
HandleQueryExecution(e, queryFails, rows, scanFailsAt, execFails) ==
    LET sqlStatement == IF e.enableWithQueryPlan THEN Explain(e.query) ELSE e.query
        noneSent == <<>>
        planSent == <<[method |-> "Query", on |-> HandleOf(e), statement |-> sqlStatement]>>
    IN  IF ~e.enableWithQueryPlan
        THEN ExecStep(e, sqlStatement, noneSent, <<>>, execFails)
        ELSE IF HandleOf(e) = NoHandle
        THEN [sent |-> noneSent, logged |-> <<>>, result |-> NoResult,
              err |-> "nil handles"]
        ELSE IF queryFails
        THEN [sent |-> planSent, logged |-> <<>>, result |-> NoResult, err |-> "query"]
        ELSE IF scanFailsAt \in 1..rows
        THEN [sent |-> planSent, logged |-> <<>>, result |-> NoResult, err |-> "scan"]
        ELSE ExecStep(e, sqlStatement, planSent,
                      <<[statement |-> sqlStatement, rows |-> rows]>>, execFails)

\* a call of handleQueryExecution
Execute(e, queryFails, rows, scanFailsAt, execFails) ==
    /\ exec' = [called |-> TRUE, e |-> e,
                store |-> [queryFails |-> queryFails, rows |-> rows,
                           scanFailsAt |-> scanFailsAt, execFails |-> execFails],
                out |-> HandleQueryExecution(e, queryFails, rows, scanFailsAt, execFails)]
    /\ UNCHANGED <<cacheVars, ghostVars, concVars, reportVars, registryVars, requested>>

NextQuery ==
    \E e \in QueryExecutions, queryFails \in BOOLEAN, rows \in 0..MaxRows,
       scanFailsAt \in 0..MaxRows, execFails \in BOOLEAN :
        Execute(e, queryFails, rows, scanFailsAt, execFails)

SpecQuery == Init /\ [][NextQuery]_vars

\* the statements the call sent to the store with Exec
Executed == {exec.out.sent[i].statement :
                i \in {j \in 1..Len(exec.out.sent) : exec.out.sent[j].method = "Exec"}}

\* C10: plan logging is purely additive: the statement the call executes, and
\* whose result it returns, is e.query itself, with enableWithQueryPlan true as
\* with it false.
C10_PlanLoggingIsAdditive ==
    exec.called =>
        /\ \A statement \in Executed : statement = exec.e.query
        /\ exec.out.result # NoResult => exec.out.result.of = exec.e.query

\* C14: every statement of a call goes to one handle, the transaction when it
\* is set and the pooled handle otherwise; with both nil the call returns an
\* error and sends nothing; with plan logging enabled, when the plan query
\* fails or the scan of one of its rows fails, the call returns that error and
\* executes nothing.
C14_OneHandleAndErrorsReturned ==
    exec.called =>
        LET e == exec.e
            out == exec.out
            planFails == exec.store.queryFails \/ exec.store.scanFailsAt \in 1..exec.store.rows
        IN  /\ \A i \in 1..Len(out.sent) :
                  /\ out.sent[i].on # NoHandle
                  /\ out.sent[i].on = e.txn \/ (e.txn = NoHandle /\ out.sent[i].on = e.db)
            /\ (e.txn = NoHandle /\ e.db = NoHandle) =>
                  out.sent = <<>> /\ out.err = "nil handles" /\ out.result = NoResult
            /\ (e.enableWithQueryPlan /\ planFails /\ (e.txn # NoHandle \/ e.db # NoHandle)) =>
                  /\ out.err = IF exec.store.queryFails THEN "query" ELSE "scan"
                  /\ Executed = {}
                  /\ out.result = NoResult
                  /\ Len(out.sent) = 1

\* with both handles set and the plan enabled, the scan of the second row failed
C14_ScanFailedWithBothHandles ==
    /\ exec.called
    /\ exec.e.txn # NoHandle
    /\ exec.e.db # NoHandle
    /\ exec.e.enableWithQueryPlan
    /\ ~exec.store.queryFails
    /\ exec.store.scanFailsAt = 2
    /\ exec.store.rows = 2
    /\ exec.out.err = "scan"

----------------------------------------------------------------------------
(* The cache with the entries of its counters: getSchemaVersionCounters reports *)
(* what ItemsAboveThreshold gives for each counter of a bucket.                *)

MaxEntries == 2      \* entries a counter holds

\* observed values of a field
Values == {"x", "y"}

\* frequencies, in hundredths; an estimate may exceed One
Threshold == 25
One == 100
Frequencies == {Threshold, One, 150}

\* the entries a FrequencyCounter may hold, one per value
EntryLists ==
    {s \in UNION {[1..n -> [Key : Values, Frequency : Frequencies]] : n \in 0..MaxEntries} :
        \A i, j \in 1..Len(s) : i # j => s[i].Key # s[j].Key}

\* the counters the buckets of a heap hold
CountersOf(hp) == UNION {Range(hp[i]) : i \in MapIds}

\* the entries after a step of the cache: a counter that stays keeps its
\* entries, a counter NewFrequencyCounter made has none
EntriesAfter(hp) == [c \in CountersOf(hp) |-> IF c \in DOMAIN entries THEN entries[c] ELSE <<>>]

\* fc.ItemsAboveThreshold(): the entries whose frequency is above the threshold
IsAboveThreshold(entry) == entry.Frequency > Threshold
ItemsAboveThreshold(fc) == SelectSeq(entries[fc], IsAboveThreshold)

\* lines 112-122 without the cap of lines 118-120
CounterItemsUncapped(fc) ==
    LET items == ItemsAboveThreshold(fc)
    IN  [i \in 1..Len(items) |-> [Value |-> items[i].Key, Frequency |-> items[i].Frequency]]

\* lines 112-122: the CounterItems of a counter, the frequency capped at 1
CounterItems(fc) ==
    LET items == ItemsAboveThreshold(fc)
    IN  [i \in 1..Len(items) |->
            [Value |-> items[i].Key,
             Frequency |-> IF items[i].Frequency > One THEN One ELSE items[i].Frequency]]

\* lines 107-128: the map getSchemaVersionCounters builds
SchemaVersionCounters(schemaHash) ==
    LET schemaVersionCounters == Bucket(schemaHash)
        reported == {key \in DOMAIN schemaVersionCounters :
                        Len(CounterItems(schemaVersionCounters[key])) > 0}
    IN  [key \in reported |-> CounterItems(schemaVersionCounters[key])]

\* getSchemaVersionCounters(schemaHash)
getSchemaVersionCounters(schemaHash) ==
    /\ counters' = SchemaVersionCounters(schemaHash)
    /\ last' = [NoCall EXCEPT !.op = "report", !.h = schemaHash]
    /\ UNCHANGED <<countersCache, heap, frequencyCounterLimit, pendingTrim, ghostVars,
                   concVars, exec, entries, registryVars, requested>>

\* a handled event reaches the counter of a tracked field: the counter's
\* entries change
ObserveValue(schemaHash, key, list) ==
    /\ key \in Tracked(schemaHash)
    /\ entries[Bucket(schemaHash)[key]] # list
    /\ entries' = [entries EXCEPT ![Bucket(schemaHash)[key]] = list]
    /\ last' = [NoCall EXCEPT !.op = "observe", !.h = schemaHash, !.key = key]
    /\ counters' = <<>>
    /\ UNCHANGED <<countersCache, heap, frequencyCounterLimit, pendingTrim, ghostVars,
                   concVars, exec, registryVars, requested>>

NextReport ==
    \/ \E h \in OneHash, key \in ConcFields :
          /\ getFrequencyCounter(h, key)
          /\ entries' = EntriesAfter(heap')
          /\ counters' = <<>>
          /\ UNCHANGED <<ghostVars, registryVars, requested>>
    \/ \E n \in 0..MaxLimit :
          SetLimit(n) /\ counters' = <<>> /\ UNCHANGED <<ghostVars, entries, registryVars, requested>>
    \/ \E h \in OneHash, key \in ConcFields, list \in EntryLists : ObserveValue(h, key, list)
    \/ \E h \in Hashes :
          /\ getAllFrequencyCounters(h)
          /\ counters' = <<>>
          /\ UNCHANGED <<ghostVars, entries, registryVars, requested>>
    \/ \E h \in Hashes : getSchemaVersionCounters(h)

SpecReport == Init /\ [][NextReport]_vars

\* the positions of the entries of a counter that are above the threshold
Above(fc) == {i \in 1..Len(entries[fc]) : entries[fc][i].Frequency > Threshold}

\* C11: getSchemaVersionCounters returns an entry for exactly the tracked fields
\* that have an item above the threshold; the entry lists those items, in the
\* counter's order, each with the frequency min(frequency, 1); a hash without
\* bucket yields no entry; every reported frequency lies in [0, 1].
C11_ReportsCappedItemsAboveThreshold ==
    last.op = "report" =>
        LET m == Bucket(last.h)
        IN  /\ DOMAIN counters = {k \in DOMAIN m : Above(m[k]) # {}}
            /\ countersCache[last.h] = NoMap => counters = <<>>
            /\ \A k \in DOMAIN counters :
                  /\ Len(counters[k]) = Cardinality(Above(m[k]))
                  /\ \A i \in Above(m[k]) :
                        LET n == Cardinality({j \in Above(m[k]) : j <= i})
                        IN  /\ counters[k][n].Value = entries[m[k]][i].Key
                            /\ counters[k][n].Frequency = Min(entries[m[k]][i].Frequency, One)
                  /\ \A n \in 1..Len(counters[k]) :
                        counters[k][n].Frequency >= 0 /\ counters[k][n].Frequency <= One

\* a report of two fields: one with an item above 1 and an item not above the
\* threshold, the other with no item above the threshold
C11_ReportedCappedAndOmitted ==
    /\ last.op = "report"
    /\ \E k \in Tracked(last.h) :
          /\ k \in DOMAIN counters
          /\ \E i \in 1..Len(entries[Bucket(last.h)[k]]) :
                entries[Bucket(last.h)[k]][i].Frequency > One
          /\ Len(counters[k]) < Len(entries[Bucket(last.h)[k]])
    /\ \E k \in Tracked(last.h) :
          k \notin DOMAIN counters /\ Len(entries[Bucket(last.h)[k]]) > 0

\* C15: getAllFrequencyCounters and getSchemaVersionCounters change nothing: no
\* bucket is made for a hash without one (the list, or the map, returned is
\* empty), no counter is evicted even from a bucket above the limit, and the
\* list getAllFrequencyCounters returns holds each counter of the bucket once.
C15_ReadsLeaveCache ==
    [][last'.op \in {"all", "report"} =>
          LET h == last'.h
          IN  /\ UNCHANGED <<countersCache, heap, frequencyCounterLimit, entries>>
              /\ last'.op = "all" =>
                    /\ Len(last'.list) = MapLen(Bucket(h))
                    /\ \A k \in Tracked(h) :
                          Cardinality({i \in 1..Len(last'.list) :
                                          last'.list[i] = Bucket(h)[k]}) = 1
                    /\ countersCache[h] = NoMap => last'.list = <<>>
              /\ last'.op = "report" =>
                    (countersCache[h] = NoMap => counters' = <<>>)]_vars

\* a snapshot of two counters was taken of a bucket above the limit
C15_SnapshotAboveLimit ==
    /\ last.op = "all"
    /\ Len(last.list) = 2
    /\ MapLen(Bucket(last.h)) > frequencyCounterLimit

----------------------------------------------------------------------------
(* handleEvent: the event's model and schema version are resolved, then the   *)
(* counters of its fields are fetched from the cache. The values a counter    *)
(* tallies are left to ObserveValue of SpecReport.                            *)

MaxEvents == 3       \* handleEvent calls in one run

WriteKeys == {"k", "my-write-key"}
EventTypes == {"track"}
EventIdentifiers == {"Demo Track", "Other Track"}

\* the identity of an event model
Triples == [WriteKey : WriteKeys, EventType : EventTypes, EventIdentifier : EventIdentifiers]

\* flattened events: field A holds a string, field B, when present, a number
StringValues == {[type |-> "string", v |-> "Demo Label"], [type |-> "string", v |-> "Other Label"]}
NumberValues == {[type |-> "float64", v |-> "5"]}
FlattenedEvents ==
    [{"A"} -> StringValues] \cup
    {[p \in {"A", "B"} |-> IF p = "A" THEN a ELSE b] : a \in StringValues, b \in NumberValues}

\* the paths in sorted order
SortedPaths == <<"A", "B">>

\* getSchema(flattenedEvent): path -> type
getSchema(flattenedEvent) == [p \in DOMAIN flattenedEvent |-> flattenedEvent[p].type]

\* the <<path, type>> pairs of a schema, sorted by path
RECURSIVE SortedPairs(_, _)
SortedPairs(schema, i) ==
    IF i > Len(SortedPaths) THEN <<>>
    ELSE IF SortedPaths[i] \in DOMAIN schema
         THEN <<<<SortedPaths[i], schema[SortedPaths[i]]>>>> \o SortedPairs(schema, i + 1)
         ELSE SortedPairs(schema, i + 1)

\* the digests of the sorted pairs of the schemas of FlattenedEvents
Digests ==
    (<< <<"A", "string">> >> :> "h1") @@
    (<< <<"A", "string">>, <<"B", "float64">> >> :> "h2")

\* getSchemaHash(schema): the digest over the sorted pairs
getSchemaHash(schema) == Digests[SortedPairs(schema, 1)]

\* a UUID no model and no version has
UsedUUIDs ==
    {eventModelMap[t].UUID : t \in DOMAIN eventModelMap} \cup
    UNION {{schemaVersionMap[u][h].UUID : h \in DOMAIN schemaVersionMap[u]} :
              u \in DOMAIN schemaVersionMap}
NewUUID(used) == Cardinality(used) + 1

\* resolveModel without the lookup: a model is created at every call
ResolveModelAlwaysNew(models, triple) ==
    Insert(models, triple, [UUID |-> NewUUID(UsedUUIDs), Triple |-> triple])

\* resolveModel(producer, category, identifier): get-or-create
ResolveModel(models, triple) ==
    IF triple \in DOMAIN models THEN models
    ELSE Insert(models, triple, [UUID |-> NewUUID(UsedUUIDs), Triple |-> triple])

\* resolveSchemaVersion(model, hash, schema): get-or-create under the model
ResolveSchemaVersion(versions, models, triple, hash, schema) ==
    LET uuid == models[triple].UUID
        under == IF uuid \in DOMAIN versions THEN versions[uuid] ELSE <<>>
        used == UsedUUIDs \cup {uuid}
    IN  IF hash \in DOMAIN under THEN versions
        ELSE Insert(versions, uuid,
                    Insert(under, hash, [UUID |-> NewUUID(used), EventModelID |-> uuid,
                                         SchemaHash |-> hash, Schema |-> schema]))

\* the maps getFrequencyCounterBounded may leave after it was called for each key
RECURSIVE MapsAfterGets(_, _, _, _)
MapsAfterGets(h, m, keys, bound) ==
    IF keys = <<>> THEN {m}
    ELSE UNION {MapsAfterGets(h, MapAfterGet(h, m, Head(keys), bound, evict), Tail(keys), bound) :
                    evict \in Evictions(m, bound)}

\* the orders in which the range over the flattened event produces its keys
KeyOrders(flattenedEvent) ==
    {s \in [1..Cardinality(DOMAIN flattenedEvent) -> DOMAIN flattenedEvent] :
        \A i, j \in DOMAIN s : i # j => s[i] # s[j]}

\* handleEvent(writeKey, event)
handleEvent(triple, flattenedEvent) ==
    LET schema == getSchema(flattenedEvent)
        hash == getSchemaHash(schema)
        models == ResolveModel(eventModelMap, triple)
        versions == ResolveSchemaVersion(schemaVersionMap, models, triple, hash, schema)
        ok == countersCache[hash] # NoMap
        ref == IF ok THEN countersCache[hash] ELSE NewMap(hash)
        m == IF ok THEN heap[ref] ELSE EmptyMap
    IN  /\ Len(resolved) < MaxEvents
        /\ eventModelMap' = models
        /\ schemaVersionMap' = versions
        /\ resolved' = Append(resolved, [triple |-> triple, event |-> flattenedEvent,
                                         model |-> models[triple].UUID,
                                         version |-> versions[models[triple].UUID][hash].UUID])
        /\ \E keys \in KeyOrders(flattenedEvent) :
              \E after \in MapsAfterGets(hash, m, keys, frequencyCounterLimit) :
                  /\ countersCache' = [countersCache EXCEPT ![hash] = ref]
                  /\ heap' = [heap EXCEPT ![ref] = after]
        /\ last' = [NoCall EXCEPT !.op = "event", !.h = hash]
        /\ pendingTrim' = [pendingTrim EXCEPT ![hash] = FALSE]
        /\ entries' = EntriesAfter(heap')
        /\ UNCHANGED <<frequencyCounterLimit, ghostVars, concVars, exec, counters, requested>>

NextEvents ==
    \E triple \in Triples, flattenedEvent \in FlattenedEvents : handleEvent(triple, flattenedEvent)

SpecEvents == Init /\ [][NextEvents]_vars

\* the calls that resolved a triple, and the hashes of their events
CallsOf(triple) == {i \in 1..Len(resolved) : resolved[i].triple = triple}
HashesOf(triple) == {getSchemaHash(getSchema(resolved[i].event)) : i \in CallsOf(triple)}

\* C12: after any number of handleEvent calls there is one EventModel per
\* (write key, event type, event identifier), of the UUID every call for that
\* triple resolved, distinct from the UUID of every other model; under it one
\* SchemaVersion per shape handled, of the UUID every call for that shape
\* resolved, keyed by the hash re-derived from the flattened event.
C12_HandleEventIdempotent ==
    /\ \A i \in 1..Len(resolved) :
          LET r == resolved[i]
              hash == getSchemaHash(getSchema(r.event))
          IN  /\ r.triple \in DOMAIN eventModelMap
              /\ eventModelMap[r.triple].UUID = r.model
              /\ r.model \in DOMAIN schemaVersionMap
              /\ hash \in DOMAIN schemaVersionMap[r.model]
              /\ schemaVersionMap[r.model][hash].UUID = r.version
              /\ DOMAIN schemaVersionMap[r.model] = HashesOf(r.triple)
    /\ \A t1, t2 \in DOMAIN eventModelMap :
          eventModelMap[t1].UUID = eventModelMap[t2].UUID => t1 = t2
    /\ DOMAIN eventModelMap = {resolved[i].triple : i \in 1..Len(resolved)}

\* three events of one triple and one shape, with different values, were handled
C12_SameShapeThrice ==
    /\ Len(resolved) = 3
    /\ Cardinality({resolved[i].triple : i \in 1..3}) = 1
    /\ Cardinality(HashesOf(resolved[1].triple)) = 1
    /\ resolved[1].event # resolved[2].event
    /\ Cardinality(DOMAIN schemaVersionMap[resolved[1].model]) = 1

----------------------------------------------------------------------------
(* The cache when the configuration hands it any integer as the limit: the   *)
(* limit is a package variable that is assigned (frequencyCounterLimit = 3 in *)
(* TestHandleEventBoundsFrequencyCounter) and read by getFrequencyCounter and  *)
(* populateFrequencyCounters; nothing in between checks it.                   *)

\* bounds no bucket can respect
InvalidLimits == {-1}

NextLimits ==
    \/ \E h \in OneHash, key \in ConcFields :
          getFrequencyCounter(h, key) /\ UNCHANGED <<ghostVars, reportVars, registryVars, requested>>
    \/ \E h \in OneHash, l \in PersistedLists :
          populateFrequencyCounters(h, l) /\ UNCHANGED <<ghostVars, reportVars, registryVars, requested>>
    \/ \E n \in InvalidLimits \cup (0..MaxLimit) :
          SetLimit(n) /\ UNCHANGED <<ghostVars, reportVars, registryVars, requested>>

SpecLimits == Init /\ [][NextLimits]_vars

\* C13: an invalid limit (a negative bound) is rejected and the last valid
\* limit retained, so that no getFrequencyCounter and no
\* populateFrequencyCounters call runs with an invalid bound.
C13_InvalidLimitNeverUsed ==
    last.op \in {"get", "populate"} => frequencyCounterLimit >= 0

----------------------------------------------------------------------------
(* Gets, limit changes and reloads on one hash, with the order of the requests *)

\* the requests once key is asked for
Asked(key) ==
    IF \E i \in 1..Len(requested.keys) : requested.keys[i] = key THEN requested
    ELSE [requested EXCEPT !.keys = Append(@, key)]

OrderGet(h, key) ==
    /\ getFrequencyCounter(h, key)
    /\ requested' = Asked(key)
    /\ UNCHANGED <<ghostVars, reportVars, registryVars>>

OrderSetLimit(n) ==
    /\ SetLimit(n)
    /\ requested' = [requested EXCEPT !.whole = @ /\ n > frequencyCounterLimit,
                                      !.raised = @ \/ n > frequencyCounterLimit]
    /\ UNCHANGED <<ghostVars, reportVars, registryVars>>

OrderReload(h) ==
    /\ Reload(h)
    /\ requested' = [requested EXCEPT !.whole = FALSE]
    /\ UNCHANGED <<ghostVars, reportVars, registryVars>>

NextOrder ==
    \/ \E h \in OneHash, key \in Fields : OrderGet(h, key)
    \/ \E n \in 0..MaxLimit : OrderSetLimit(n)
    \/ \E h \in OneHash : OrderReload(h)

SpecOrder == Init /\ [][NextOrder]_vars

\* the first n distinct keys requested
FirstRequested(n) == {requested.keys[i] : i \in 1..Min(n, Len(requested.keys))}

\* a get step on a bucket no lowering of the limit is waiting to trim keeps
\* every tracked field and its counter
GetKeepsTracked ==
    \A h \in OneHash :
        (last'.op = "get" /\ last'.h = h /\ ~pendingTrim[h]) =>
            \A k \in Tracked(h) : Lookup(Bucket(h)', k) = Bucket(h)[k]

\* C16 as claimed: while the limit is not lowered and the bucket not replaced by
\* populate, no get removes a tracked field or replaces its counter, and the
\* fields tracked are the first `limit` distinct fields requested.
C16_FirstComeFirstKept ==
    [][/\ GetKeepsTracked
       /\ requested'.whole =>
             \A h \in OneHash : Tracked(h)' = FirstRequested(frequencyCounterLimit)']_vars

\* C16 as amended: while the limit is not lowered and the bucket not replaced by
\* populate, no get removes a tracked field or replaces its counter; while the
\* limit is moreover not raised, the fields tracked are the first `limit`
\* distinct fields requested; after a raise they are fields that were requested,
\* min(limit, number requested) of them at most.
C16_GetsOnlyGrowFirstKeptUnderFixedLimit ==
    [][/\ GetKeepsTracked
       /\ (requested'.whole /\ ~requested'.raised) =>
             \A h \in OneHash : Tracked(h)' = FirstRequested(frequencyCounterLimit)'
       /\ requested'.whole =>
             \A h \in OneHash :
                /\ Tracked(h)' \subseteq {requested'.keys[i] : i \in 1..Len(requested'.keys)}
                /\ MapLen(Bucket(h))' <= Min(frequencyCounterLimit', Len(requested'.keys))]_vars

\* under an unchanged limit of at least one, more distinct fields were requested
\* than the limit, and the last get was refused
C16_LateFieldRefused ==
    /\ requested.whole
    /\ ~requested.raised
    /\ frequencyCounterLimit >= 1
    /\ Len(requested.keys) > frequencyCounterLimit
    /\ last.op = "get"
    /\ last.ret = NoCounter

----------------------------------------------------------------------------
(* The cache operations on two schema hashes *)

\* the persisted lists that name the fields the gets of this specification ask for
ListsOfConcFields ==
    {l \in PersistedLists : \A i \in 1..Len(l) : l[i].Name \in ConcFields}

NextHashes ==
    \/ \E h \in Hashes, key \in ConcFields :
          getFrequencyCounter(h, key) /\ UNCHANGED <<ghostVars, reportVars, registryVars, requested>>
    \/ \E h \in Hashes, l \in ListsOfConcFields :
          populateFrequencyCounters(h, l) /\ UNCHANGED <<ghostVars, reportVars, registryVars, requested>>
    \/ \E n \in 0..MaxLimit :
          SetLimit(n) /\ UNCHANGED <<ghostVars, reportVars, registryVars, requested>>

SpecHashes == Init /\ [][NextHashes]_vars

\* C17: a get (with its trim) and a populate on one schema hash leave the bucket
\* of every other hash as it was, and a change of the limit leaves every bucket
\* as it was: a bucket above a lowered limit is trimmed by the next get on its
\* own hash only, and stays above the limit until then.
C17_OtherBucketsUntouched ==
    [][\A h \in Hashes :
          (last'.op \in {"get", "populate", "limit"} /\ last'.h # h) =>
              /\ countersCache'[h] = countersCache[h]
              /\ Bucket(h)' = Bucket(h)
              /\ (MapLen(Bucket(h)) > frequencyCounterLimit' =>
                      MapLen(Bucket(h))' > frequencyCounterLimit')]_vars

\* after a lowering, a get has trimmed the bucket of its hash while the bucket
\* of the other hash is still above the limit
C17_OtherBucketStillAboveLimit ==
    /\ last.op = "get"
    /\ MapLen(last.pre) > frequencyCounterLimit
    /\ MapLen(Bucket(last.h)) = frequencyCounterLimit
    /\ \E h \in Hashes \ {last.h} : MapLen(Bucket(h)) > frequencyCounterLimit

----------------------------------------------------------------------------
(* Claims about concurrent calls *)

\* the limit has not been assigned since the start (SetLimitConc alone writes
\* `last` in SpecConc, and nothing is deleted from a bucket while this holds
\* unless the initial limit is exceeded)
LimitUnchanged == last.op = "none"

\* C3: with the limit unchanged, every interleaving of concurrent
\* getFrequencyCounter calls on one schema hash leaves its bucket with at most
\* `limit` tracked fields.
C3_ConcurrentGetsBounded ==
    LimitUnchanged => \A h \in Hashes : MapLen(Bucket(h)) <= frequencyCounterLimit

\* C8: concurrent gets for the same untracked field create one counter: the
\* counter a caller has received is the one its bucket holds for the field, so
\* all callers hold the same counter and none holds an orphan.
C8_OneCounterPerField ==
    LimitUnchanged =>
        \A w \in Workers :
            (gor[w].pc = "returned" /\ gor[w].fc # NoCounter) =>
                Lookup(Bucket(gor[w].h), gor[w].key) = gor[w].fc

\* C9: a getSchemaVersionCounters call that ran while a get was trimming the
\* bucket returns the fields of the whole bucket as it was at some moment of the
\* call at which no trim was part-way through (before the trim, or after it).
C9_ReadSeesWholeBucket ==
    (gor[Reader].pc = "returned" /\ gor[Reader].overTrim) =>
        gor[Reader].seen \in gor[Reader].views

----------------------------------------------------------------------------
(* Claims about the cache, one call at a time *)

\* the names of the first n counters of the list the last call was given
ListNames(n) == {last.list[i].Name : i \in 1..n}

\* C1: on every schema hash the number of tracked fields is at most the current
\* limit, except between a lowering of the limit and the completion of the next
\* getFrequencyCounter on that hash; once that call has completed the count is
\* at most the limit again.
C1_BoundedExceptPendingTrim ==
    \A h \in Hashes : pendingTrim[h] \/ MapLen(Bucket(h)) <= frequencyCounterLimit

\* a get has just trimmed a bucket that a lowering had left above the limit
C1_TrimRestoredBound ==
    /\ last.op = "get"
    /\ MapLen(last.pre) > frequencyCounterLimit
    /\ ~pendingTrim[last.h]
    /\ MapLen(Bucket(last.h)) <= frequencyCounterLimit

\* C2: a get for a field that has a counter in the bucket at the time of the call
\* returns that counter and leaves it in the bucket, whether the bucket is below,
\* at or above the limit.
C2_GetReturnsTrackedCounter ==
    (last.op = "get" /\ last.key \in DOMAIN last.pre) =>
        /\ last.ret = last.pre[last.key]
        /\ Lookup(Bucket(last.h), last.key) = last.pre[last.key]

\* C6: populate replaces the whole bucket: afterwards it holds only fields named
\* in the list (so no field tracked before and absent from the list survives),
\* each under its own name, at most `bound` of them, and when the names of the
\* list are distinct exactly the first min(bound, len) of them in list order.
C6_PopulateReplacesBucket ==
    last.op \in {"populate", "reload"} =>
        LET len == Len(last.list)
            b == Bucket(last.h)
        IN  /\ DOMAIN b \subseteq ListNames(len)
            /\ \A k \in DOMAIN b : b[k].Name = k
            /\ MapLen(b) <= frequencyCounterLimit
            /\ Cardinality(ListNames(len)) = len =>
                  DOMAIN b = ListNames(Min(frequencyCounterLimit, len))

\* a populate has truncated a list of distinct names longer than the bound
C6_PopulateTruncated ==
    /\ last.op = "populate"
    /\ frequencyCounterLimit >= 1
    /\ Len(last.list) > frequencyCounterLimit
    /\ Cardinality(ListNames(Len(last.list))) = Len(last.list)
    /\ MapLen(Bucket(last.h)) = frequencyCounterLimit

\* C7 as claimed: in every state, reloading the snapshot of a bucket yields a
\* bucket with the same set of fields, of size at most the limit.
C7_ReloadRoundTrip ==
    last.op = "reload" =>
        /\ Tracked(last.h) = ListNames(Len(last.list))
        /\ MapLen(Bucket(last.h)) <= frequencyCounterLimit

\* C7 as amended: the reload keeps min(limit, size) fields of the snapshot, so it
\* yields the same set of fields exactly when the bucket held at most `limit`
\* fields; a bucket above the limit comes back cut to `limit` of its fields.
C7_ReloadRoundTripWithinLimit ==
    last.op = "reload" =>
        LET before == ListNames(Len(last.list))
        IN  /\ Tracked(last.h) \subseteq before
            /\ MapLen(Bucket(last.h)) = Min(frequencyCounterLimit, Cardinality(before))
            /\ Cardinality(before) <= frequencyCounterLimit => Tracked(last.h) = before

\* a bucket of several fields, within the limit, has been flushed and reloaded
C7_ReloadedWithinLimit ==
    /\ last.op = "reload"
    /\ Len(last.list) >= 2
    /\ Len(last.list) <= frequencyCounterLimit
    /\ Tracked(last.h) = ListNames(Len(last.list))

----------------------------------------------------------------------------
(* Claims about repeated gets *)

\* C4: once more than `limit` distinct fields have been asked for under the
\* current limit, exactly `limit` fields are tracked; a get on a bucket above the
\* limit evicts exactly size - limit entries and inserts nothing, leaving exactly
\* `limit` fields; and the gets after a trim keep the count at exactly the limit.
C4_FillAndTrimExact ==
    \A h \in OneHash :
        /\ Cardinality(asked) > frequencyCounterLimit =>
              MapLen(Bucket(h)) = frequencyCounterLimit
        /\ (last.op = "get" /\ MapLen(last.pre) > frequencyCounterLimit) =>
              /\ Tracked(h) \subseteq DOMAIN last.pre
              /\ Cardinality(DOMAIN last.pre \ Tracked(h)) =
                     MapLen(last.pre) - frequencyCounterLimit
        /\ trimmed => MapLen(Bucket(h)) = frequencyCounterLimit

\* after a lowering and the trim, more than `limit` distinct fields were asked for
C4_TrimmedThenAsked ==
    /\ trimmed
    /\ frequencyCounterLimit >= 1
    /\ Cardinality(asked) > frequencyCounterLimit

\* C5: a get on a bucket whose size equals the limit, for a field that is not
\* tracked, returns no counter and leaves the bucket as it was; the field stays
\* untracked until the limit is raised above the bucket's size or the bucket is
\* replaced.
C5_FullBucketRefuses ==
    /\ (last.op = "get" /\ MapLen(last.pre) = frequencyCounterLimit
            /\ last.key \notin DOMAIN last.pre) =>
          /\ last.ret = NoCounter
          /\ Bucket(last.h) = last.pre
    /\ \A h \in OneHash : denied \cap Tracked(h) = {}

\* a full, non-empty bucket has refused two different fields
C5_RefusedTwoFields ==
    /\ last.op = "get"
    /\ last.ret = NoCounter
    /\ frequencyCounterLimit >= 1
    /\ MapLen(last.pre) = frequencyCounterLimit
    /\ Cardinality(denied) >= 2

====
